---- MODULE Spec2Model ----
(***************************************************************************)
(* The field type system of asyncorm (asyncorm/fields/fields.py): one      *)
(* field descriptor, constructed once from a class and its keyword         *)
(* arguments, and the calls the model layer makes on it afterwards:        *)
(* validate, sanitize_data, serialize_data, recompose and creation_query.  *)
(*                                                                         *)
(* Python values are tagged pairs <<type, payload>>.  A Python str is a    *)
(* sequence of one-character strings, so len(), quoting, the email         *)
(* pattern, the JSON codec and str.format work on characters.  The         *)
(* outcome of a call is Ok(value) or Raise(exception, message, a, b).      *)
(***************************************************************************)
EXTENDS Integers, Sequences, FiniteSets, TLC

VARIABLES field, declared, call, result

vars == <<field, declared, call, result>>

(***************************************************************************)
(* Bounds of the model.                                                    *)
(***************************************************************************)
\* the largest max_length a declaration is given
MaxLength == 6

(***************************************************************************)
(* Python values.                                                          *)
(***************************************************************************)
NoneV == <<"none", 0>>
BoolV(b) == <<"bool", b>>
IntV(n) == <<"int", n>>
StrV(s) == <<"str", s>>
ListV(xs) == <<"list", xs>>
DatetimeV(d) == <<"datetime", d>>
CallableV(v) == <<"callable", v>>
DictV(ps) == <<"dict", ps>>
TupleV(ps) == <<"tuple", ps>>

TypeOf(v) == v[1]
Val(v) == v[2]

Ok(v) == <<"ok", v>>
Raise(exc, msg, a, b) == <<"raise", <<exc, msg, a, b>>>>
IsOk(r) == r[1] = "ok"
IsRaise(r) == r[1] = "raise"
Raises(r, exc) == r[1] = "raise" /\ r[2][1] = exc

\* isinstance(v, types): bool is a subclass of int, everything is an object
IsInstance(v, types) ==
    \/ "object" \in types
    \/ TypeOf(v) \in types
    \/ TypeOf(v) = "bool" /\ "int" \in types

\* bool(v)
Truthy(v) ==
    CASE TypeOf(v) = "none" -> FALSE
      [] TypeOf(v) = "bool" -> Val(v)
      [] TypeOf(v) = "int" -> Val(v) # 0
      [] TypeOf(v) \in {"str", "list", "dict", "tuple"} -> Len(Val(v)) > 0
      [] OTHER -> TRUE

IsNumber(v) == TypeOf(v) \in {"bool", "int"}
Num(v) == IF TypeOf(v) = "bool" THEN (IF Val(v) THEN 1 ELSE 0) ELSE Val(v)

\* a == b, as dict key lookup compares: True == 1 and False == 0
PyEq(a, b) == IF IsNumber(a) /\ IsNumber(b) THEN Num(a) = Num(b) ELSE a = b

\* hash(v) is defined
Hashable(v) == TypeOf(v) \notin {"list", "dict"}

(***************************************************************************)
(* Text.                                                                   *)
(***************************************************************************)
DigitChars == <<"0", "1", "2", "3", "4", "5", "6", "7", "8", "9">>
DigitSet == {DigitChars[i] : i \in 1..10}
DigitValue(c) == (CHOOSE i \in 1..10 : DigitChars[i] = c) - 1

Letters ==
    {"a", "b", "c", "d", "e", "f", "g", "h", "i", "j", "k", "l", "m",
     "n", "o", "p", "q", "r", "s", "t", "u", "v", "w", "x", "y", "z",
     "A", "B", "C", "D", "E", "F", "G", "H", "I", "J", "K", "L", "M",
     "N", "O", "P", "Q", "R", "S", "T", "U", "V", "W", "X", "Y", "Z"}

\* the regular expression class \w, on ASCII
WordChars == Letters \cup DigitSet \cup {"_"}

RECURSIVE NatStr(_)
NatStr(n) == IF n < 10 THEN <<DigitChars[n + 1]>>
             ELSE NatStr(n \div 10) \o <<DigitChars[(n % 10) + 1]>>

\* str(n) of an int
IntStr(n) == IF n < 0 THEN <<"-">> \o NatStr(0 - n) ELSE NatStr(n)

\* a character sequence as a TLA+ string
RECURSIVE Join(_)
Join(s) == IF s = <<>> THEN "" ELSE Head(s) \o Join(Tail(s))

\* the first index of seq at or after i whose element satisfies P, else Len + 1
FirstFrom(seq, i, P(_)) ==
    IF \E j \in i..Len(seq) : P(seq[j])
    THEN CHOOSE j \in i..Len(seq) : P(seq[j]) /\ \A k \in i..(j - 1) : ~P(seq[k])
    ELSE Len(seq) + 1

\* part is a contiguous part of text
Contains(text, part) ==
    \E i \in 1..(Len(text) - Len(part) + 1) :
        SubSeq(text, i, i + Len(part) - 1) = part

EndsWith(text, part) ==
    /\ Len(part) <= Len(text)
    /\ SubSeq(text, Len(text) - Len(part) + 1, Len(text)) = part

StartsWith(text, part) ==
    /\ Len(part) <= Len(text)
    /\ SubSeq(text, 1, Len(part)) = part

Quote(text) == <<"'">> \o text \o <<"'">>

\* str(datetime(2020, 1, d)) for a day d in 1..9
DatetimeStr(d) == <<"2", "0", "2", "0", "-", "0", "1", "-", "0">> \o <<DigitChars[d + 1]>> \o <<" ", "0", "0", ":", "0", "0", ":", "0", "0">>

\* repr(v) and str(v)
RECURSIVE PyRepr(_)
RECURSIVE ReprJoin(_)
ReprJoin(xs) ==
    IF xs = <<>> THEN <<>>
    ELSE IF Len(xs) = 1 THEN PyRepr(xs[1])
    ELSE PyRepr(xs[1]) \o <<",", " ">> \o ReprJoin(Tail(xs))
PyRepr(v) ==
    CASE TypeOf(v) = "none" -> <<"N", "o", "n", "e">>
      [] TypeOf(v) = "bool" -> IF Val(v) THEN <<"T", "r", "u", "e">> ELSE <<"F", "a", "l", "s", "e">>
      [] TypeOf(v) = "int" -> IntStr(Val(v))
      [] TypeOf(v) = "str" -> Quote(Val(v))
      [] TypeOf(v) = "list" -> <<"[">> \o ReprJoin(Val(v)) \o <<"]">>
      [] TypeOf(v) = "datetime" ->
            <<"d", "a", "t", "e", "t", "i", "m", "e", ".", "d", "a", "t", "e", "t", "i", "m", "e", "(", "2", "0", "2", "0", ",", " ", "1", ",", " ">> \o <<DigitChars[Val(v) + 1]>> \o <<",", " ", "0", ",", " ", "0", ")">>
      [] OTHER -> <<"<", "f", "u", "n", "c", "t", "i", "o", "n", ">">>

PyStr(v) ==
    CASE TypeOf(v) = "str" -> Val(v)
      [] TypeOf(v) = "datetime" -> DatetimeStr(Val(v))
      [] OTHER -> PyRepr(v)

(***************************************************************************)
(* json.loads and json.dumps, on integers, strings, null, true, false and  *)
(* arrays (no fraction or exponent parts, no escapes, no objects).         *)
(***************************************************************************)
JsonWs == {" ", "\t", "\n", "\r"}
NotWs(c) == c \notin JsonWs
NotDigit(c) == c \notin DigitSet
IsDQuote(c) == c = "\""

SkipWs(t, i) == FirstFrom(t, i, NotWs)

ParseFail == [ok |-> FALSE, val |-> NoneV, pos |-> 0]
Parsed(v, p) == [ok |-> TRUE, val |-> v, pos |-> p]

RECURSIVE DigitsValue(_)
DigitsValue(ds) ==
    IF ds = <<>> THEN 0
    ELSE 10 * DigitsValue(SubSeq(ds, 1, Len(ds) - 1)) + DigitValue(ds[Len(ds)])

\* NUMBER_RE of json.scanner: -?(0|[1-9][0-9]*), at index i of t
ParseNumber(t, i) ==
    LET neg == t[i] = "-"
        s == IF neg THEN i + 1 ELSE i
    IN  IF s > Len(t) \/ t[s] \notin DigitSet THEN ParseFail
        ELSE LET e == IF t[s] = "0" THEN s + 1 ELSE FirstFrom(t, s, NotDigit)
                 n == DigitsValue(SubSeq(t, s, e - 1))
             IN  Parsed(IntV(IF neg THEN 0 - n ELSE n), e)

ParseString(t, i) ==
    LET e == FirstFrom(t, i + 1, IsDQuote)
    IN  IF e > Len(t) THEN ParseFail
        ELSE IF \E k \in (i + 1)..(e - 1) : t[k] \in {"\n", "\t", "\r"} THEN ParseFail
        ELSE Parsed(StrV(SubSeq(t, i + 1, e - 1)), e + 1)

ParseLiteral(t, i, word, v) ==
    IF i + Len(word) - 1 <= Len(t) /\ SubSeq(t, i, i + Len(word) - 1) = word
    THEN Parsed(v, i + Len(word))
    ELSE ParseFail

RECURSIVE ParseValue(_, _)
RECURSIVE ParseArray(_, _, _, _)
ParseValue(t, i) ==
    IF i > Len(t) THEN ParseFail
    ELSE CASE t[i] = "[" -> ParseArray(t, SkipWs(t, i + 1), <<>>, TRUE)
           [] t[i] = "\"" -> ParseString(t, i)
           [] t[i] = "-" \/ t[i] \in DigitSet -> ParseNumber(t, i)
           [] t[i] = "n" -> ParseLiteral(t, i, <<"n", "u", "l", "l">>, NoneV)
           [] t[i] = "t" -> ParseLiteral(t, i, <<"t", "r", "u", "e">>, BoolV(TRUE))
           [] t[i] = "f" -> ParseLiteral(t, i, <<"f", "a", "l", "s", "e">>, BoolV(FALSE))
           [] OTHER -> ParseFail
ParseArray(t, i, acc, first) ==
    IF i > Len(t) THEN ParseFail
    ELSE IF first /\ t[i] = "]" THEN Parsed(ListV(acc), i + 1)
    ELSE LET v == ParseValue(t, i)
             k == SkipWs(t, v.pos)
         IN  IF ~v.ok \/ k > Len(t) THEN ParseFail
             ELSE IF t[k] = "]" THEN Parsed(ListV(Append(acc, v.val)), k + 1)
             ELSE IF t[k] = "," THEN ParseArray(t, SkipWs(t, k + 1), Append(acc, v.val), FALSE)
             ELSE ParseFail

\* json.loads(text): the whole text is one value between optional whitespace
json_loads(t) ==
    LET v == ParseValue(t, SkipWs(t, 1))
    IN  IF v.ok /\ SkipWs(t, v.pos) > Len(t) THEN Ok(v.val)
        ELSE Raise("JSONDecodeError", "Expecting value", "", "")

RECURSIVE json_dumps(_)
RECURSIVE DumpsJoin(_)
DumpsJoin(xs) ==
    IF xs = <<>> THEN <<>>
    ELSE IF Len(xs) = 1 THEN json_dumps(xs[1])
    ELSE json_dumps(xs[1]) \o <<",", " ">> \o DumpsJoin(Tail(xs))
json_dumps(v) ==
    CASE TypeOf(v) = "none" -> <<"n", "u", "l", "l">>
      [] TypeOf(v) = "bool" -> IF Val(v) THEN <<"t", "r", "u", "e">> ELSE <<"f", "a", "l", "s", "e">>
      [] TypeOf(v) = "int" -> IntStr(Val(v))
      [] TypeOf(v) = "str" -> <<"\"">> \o Val(v) \o <<"\"">>
      [] TypeOf(v) = "list" -> <<"[">> \o DumpsJoin(Val(v)) \o <<"]">>

\* json.dumps raises TypeError on a datetime or a function, at any depth
RECURSIVE Serializable(_)
Serializable(v) ==
    CASE TypeOf(v) \in {"none", "bool", "int", "str"} -> TRUE
      [] TypeOf(v) = "list" -> \A i \in 1..Len(Val(v)) : Serializable(Val(v)[i])
      [] OTHER -> FALSE

(***************************************************************************)
(* The field classes.                                                      *)
(***************************************************************************)
DATE_FIELDS == {<<"D", "a", "t", "e", "F", "i", "e", "l", "d">>}

KWARGS_TYPES ==
    [db_column |-> {"str"}, default |-> {"object"}, null |-> {"bool"},
     max_length |-> {"int"}, foreign_key |-> {"str"}, auto_now |-> {"bool"},
     reverse_field |-> {"str"}, choices |-> {"dict", "tuple"},
     unique |-> {"bool"}, strftime |-> {"str"}, max_digits |-> {"int"},
     decimal_places |-> {"int"}]

Classes ==
    {"PkField", "BooleanField", "CharField", "EmailField", "JsonField",
     "IntegerField", "DecimalField", "DateField", "ForeignKey", "ManyToMany"}

\* self.__class__.__name__
ClassText ==
    [PkField |-> <<"P", "k", "F", "i", "e", "l", "d">>, BooleanField |-> <<"B", "o", "o", "l", "e", "a", "n", "F", "i", "e", "l", "d">>,
     CharField |-> <<"C", "h", "a", "r", "F", "i", "e", "l", "d">>, EmailField |-> <<"E", "m", "a", "i", "l", "F", "i", "e", "l", "d">>,
     JsonField |-> <<"J", "s", "o", "n", "F", "i", "e", "l", "d">>, IntegerField |-> <<"I", "n", "t", "e", "g", "e", "r", "F", "i", "e", "l", "d">>,
     DecimalField |-> <<"D", "e", "c", "i", "m", "a", "l", "F", "i", "e", "l", "d">>, DateField |-> <<"D", "a", "t", "e", "F", "i", "e", "l", "d">>,
     ForeignKey |-> <<"F", "o", "r", "e", "i", "g", "n", "K", "e", "y">>, ManyToMany |-> <<"M", "a", "n", "y", "T", "o", "M", "a", "n", "y">>]

required_kwargs(cls) ==
    CASE cls \in {"CharField", "EmailField", "JsonField"} -> <<"max_length">>
      [] cls \in {"ForeignKey", "ManyToMany"} -> <<"foreign_key">>
      [] OTHER -> <<>>

internal_type(cls) ==
    CASE cls \in {"PkField", "IntegerField", "ForeignKey"} -> {"int"}
      [] cls = "BooleanField" -> {"bool"}
      [] cls \in {"CharField", "EmailField"} -> {"str"}
      [] cls = "JsonField" -> {"dict", "list", "str"}
      [] cls = "DecimalField" -> {"Decimal", "float", "int"}
      [] cls = "DateField" -> {"datetime"}
      [] cls = "ManyToMany" -> {"list", "int"}

creation_string(cls) ==
    CASE cls = "PkField" -> <<"s", "e", "r", "i", "a", "l", " ", "p", "r", "i", "m", "a", "r", "y", " ", "k", "e", "y">>
      [] cls = "BooleanField" -> <<"b", "o", "o", "l", "e", "a", "n">>
      [] cls \in {"CharField", "EmailField", "JsonField"} -> <<"v", "a", "r", "c", "h", "a", "r", "(", "{", "m", "a", "x", "_", "l", "e", "n", "g", "t", "h", "}", ")">>
      [] cls = "IntegerField" -> <<"i", "n", "t", "e", "g", "e", "r">>
      [] cls = "DecimalField" -> <<"d", "e", "c", "i", "m", "a", "l", "(", "{", "m", "a", "x", "_", "d", "i", "g", "i", "t", "s", "}", ",", "{", "d", "e", "c", "i", "m", "a", "l", "_", "p", "l", "a", "c", "e", "s", "}", ")">>
      [] cls = "DateField" -> <<"t", "i", "m", "e", "s", "t", "a", "m", "p">>
      [] cls = "ForeignKey" -> <<"i", "n", "t", "e", "g", "e", "r", " ", "r", "e", "f", "e", "r", "e", "n", "c", "e", "s", " ", "{", "f", "o", "r", "e", "i", "g", "n", "_", "k", "e", "y", "}">>
      [] cls = "ManyToMany" ->
            <<"\n", " ", " ", " ", " ", " ", " ", " ", " ", "{", "o", "w", "n", "_", "m", "o", "d", "e", "l", "}", " ", "I", "N", "T", "E", "G", "E", "R", " ", "R", "E", "F", "E", "R", "E", "N", "C", "E", "S", " ", "{", "o", "w", "n", "_", "m", "o", "d", "e", "l", "}", " ", "N", "O", "T", " ", "N", "U", "L", "L", ",", "\n", " ", " ", " ", " ", " ", " ", " ", " ", "{", "f", "o", "r", "e", "i", "g", "n", "_", "k", "e", "y", "}", " ", "I", "N", "T", "E", "G", "E", "R", " ", "R", "E", "F", "E", "R", "E", "N", "C", "E", "S", " ", "{", "f", "o", "r", "e", "i", "g", "n", "_", "k", "e", "y", "}", " ", "N", "O", "T", " ", "N", "U", "L", "L", "\n", " ", " ", " ", " ">>

\* the keywords each __init__ hands to Field.__init__, in order
InitKeywords(cls) ==
    CASE cls = "PkField" -> <<"db_column", "unique", "null">>
      [] cls = "BooleanField" ->
            <<"db_column", "default", "max_length", "null", "unique">>
      [] cls \in {"CharField", "EmailField", "JsonField"} ->
            <<"db_column", "default", "max_length", "null", "choices", "unique">>
      [] cls = "IntegerField" ->
            <<"db_column", "default", "null", "choices", "unique">>
      [] cls = "DecimalField" ->
            <<"db_column", "default", "null", "choices", "unique",
              "max_digits", "decimal_places">>
      [] cls = "DateField" ->
            <<"db_column", "default", "auto_now", "null", "choices", "unique",
              "strftime">>
      [] cls = "ForeignKey" ->
            <<"db_column", "default", "foreign_key", "null", "unique">>
      [] cls = "ManyToMany" ->
            <<"db_column", "foreign_key", "default", "unique">>

\* kwargs.get(k, None)
Get(kw, k) == IF k \in DOMAIN kw THEN kw[k] ELSE NoneV

(***************************************************************************)
(* Construction.                                                           *)
(***************************************************************************)
set_field_name(db_column) ==
    IF Contains(db_column, <<"_", "_">>)
    THEN Raise("FieldError", "db_column can not contain \"__\"", "", "")
    ELSE IF StartsWith(db_column, <<"_">>)
    THEN Raise("FieldError", "db_column can not start with \"_\"", "", "")
    ELSE IF EndsWith(db_column, <<"_">>)
    THEN Raise("FieldError", "db_column can not end with \"_\"", "", "")
    ELSE Ok(NoneV)

\* validate_kwargs with the required keywords checked for presence only
validate_kwargs_PresenceOnly(cls, kw) ==
    LET req == required_kwargs(cls)
        order == InitKeywords(cls)
        Missing(k) == k \notin DOMAIN kw
        Wrong(k) == /\ ~IsInstance(kw[k], KWARGS_TYPES[k])
                    /\ ~(TypeOf(kw[k]) = "none" /\ k = "choices")
        m == FirstFrom(req, 1, Missing)
        w == FirstFrom(order, 1, Wrong)
    IN  IF m <= Len(req)
        THEN Raise("FieldError", "field requires", cls, req[m])
        ELSE IF w <= Len(order)
        THEN Raise("FieldError", "Wrong value for", order[w], "")
        ELSE IF Truthy(Get(kw, "db_column"))
        THEN set_field_name(Val(kw["db_column"]))
        ELSE Ok(NoneV)

validate_kwargs(cls, kw) ==
    LET req == required_kwargs(cls)
        order == InitKeywords(cls)
        Missing(k) == ~Truthy(Get(kw, k))
        Wrong(k) == /\ ~IsInstance(kw[k], KWARGS_TYPES[k])
                    /\ ~(TypeOf(kw[k]) = "none" /\ k = "choices")
        m == FirstFrom(req, 1, Missing)
        w == FirstFrom(order, 1, Wrong)
    IN  IF m <= Len(req)
        THEN Raise("FieldError", "field requires", cls, req[m])
        ELSE IF w <= Len(order)
        THEN Raise("FieldError", "Wrong value for", order[w], "")
        ELSE IF Truthy(Get(kw, "db_column"))
        THEN set_field_name(Val(kw["db_column"]))
        ELSE Ok(NoneV)

\* {k: v for k, v in pairs}: a repeated key keeps its place and takes the last label
RECURSIVE DictOfPairs(_, _)
DictOfPairs(ps, acc) ==
    IF ps = <<>> THEN acc
    ELSE LET k == ps[1][1]
             Same(p) == PyEq(p[1], k)
             i == FirstFrom(acc, 1, Same)
         IN  DictOfPairs(Tail(ps),
                         IF i <= Len(acc) THEN [acc EXCEPT ![i] = <<acc[i][1], ps[1][2]>>]
                         ELSE Append(acc, ps[1]))

\* the instance __dict__ once Field.__init__ has run its setattr loop
Field_dict(cls, kw) ==
    [k \in DOMAIN kw \cup {"field_type"} |->
        IF k = "field_type" THEN StrV(ClassText[cls])
        ELSE IF k = "choices" /\ TypeOf(kw[k]) = "tuple"
        THEN DictV(DictOfPairs(Val(kw[k]), <<>>))
        ELSE kw[k]]

\* Field.__init__: the outcome of the constructor call
Field_init(cls, kw) == validate_kwargs(cls, kw)

HasAttr(f, name) == name \in DOMAIN f.dict
Attr(f, name) == f.dict[name]

(***************************************************************************)
(* validate.                                                               *)
(***************************************************************************)
KeyIn(value, d) == \E i \in 1..Len(Val(d)) : PyEq(Val(d)[i][1], value)

Field_validate(f, value) ==
    IF TypeOf(value) = "none" /\ ~HasAttr(f, "null")
    THEN Raise("AttributeError", "object has no attribute", f.cls, "null")
    ELSE IF TypeOf(value) = "none" /\ ~Truthy(Attr(f, "null"))
    THEN Raise("FieldError", "null value in NOT NULL field", "", "")
    ELSE IF HasAttr(f, "choices") /\ TypeOf(Attr(f, "choices")) # "none"
            /\ ~Hashable(value)
    THEN Raise("TypeError", "unhashable type", "", "")
    ELSE IF HasAttr(f, "choices") /\ TypeOf(Attr(f, "choices")) # "none"
            /\ ~KeyIn(value, Attr(f, "choices"))
    THEN Raise("FieldError", "not in model choices", "", "")
    ELSE IF ~IsInstance(value, internal_type(f.cls))
    THEN Raise("FieldError", "is a wrong datatype for field", f.cls, "")
    ELSE Ok(NoneV)

\* re.match(r'(^[\w][\w0-9_.+-]+@[\w0-9-]+\.[\w0-9-.]+$)', s)
EmailMatch(s) ==
    \E at \in 3..Len(s), dot \in 5..Len(s), end \in {Len(s) - 1, Len(s)} :
        /\ end = Len(s) \/ s[Len(s)] = "\n"
        /\ s[1] \in WordChars
        /\ \A i \in 2..(at - 1) : s[i] \in WordChars \cup {".", "+", "-"}
        /\ s[at] = "@"
        /\ dot >= at + 2
        /\ \A i \in (at + 1)..(dot - 1) : s[i] \in WordChars \cup {"-"}
        /\ s[dot] = "."
        /\ end >= dot + 1
        /\ \A i \in (dot + 1)..end : s[i] \in WordChars \cup {"-", "."}

EmailField_validate(f, value) ==
    LET r == Field_validate(f, value)
    IN  IF IsRaise(r) THEN r
        ELSE IF ~EmailMatch(Val(value))
        THEN Raise("FieldError", "not a valid email address", "", "")
        ELSE Ok(NoneV)

\* ManyToMany.validate without the loop over the elements
ManyToMany_validate_NoLoop(f, value) == Field_validate(f, value)

ManyToMany_validate(f, value) ==
    IF TypeOf(value) = "list"
    THEN LET Bad(x) == IsRaise(Field_validate(f, x))
             i == FirstFrom(Val(value), 1, Bad)
         IN  IF i <= Len(Val(value)) THEN Field_validate(f, Val(value)[i])
             ELSE Ok(NoneV)
    ELSE Field_validate(f, value)

\* self.validate(value), as the class of self resolves it
validate(f, value) ==
    CASE f.cls = "EmailField" -> EmailField_validate(f, value)
      [] f.cls = "ManyToMany" -> ManyToMany_validate(f, value)
      [] OTHER -> Field_validate(f, value)

(***************************************************************************)
(* sanitize_data, serialize_data, recompose.                               *)
(***************************************************************************)
TooLong == Raise("FieldError", "The string entered is bigger than the \"max_length\" defined", "", "")

Field_sanitize_data(f, value) ==
    IF TypeOf(value) = "none" THEN Ok(StrV(<<"N", "U", "L", "L">>))
    ELSE LET r == validate(f, value)
         IN  IF IsRaise(r) THEN r ELSE Ok(value)

BooleanField_sanitize_data(f, value) ==
    IF TypeOf(value) = "none" THEN Ok(StrV(<<"N", "U", "L", "L">>))
    ELSE IF TypeOf(value) = "bool" /\ Val(value) THEN Ok(StrV(<<"t", "r", "u", "e">>))
    ELSE IF TypeOf(value) = "bool" /\ ~Val(value) THEN Ok(StrV(<<"f", "a", "l", "s", "e">>))
    ELSE Ok(NoneV)

\* CharField.sanitize_data with the length compared by >= instead of >
CharField_sanitize_data_OffByOne(f, value) ==
    LET r == Field_sanitize_data(f, value)
    IN  IF IsRaise(r) THEN r
        ELSE IF Len(Val(r[2])) >= Val(Attr(f, "max_length")) THEN TooLong
        ELSE Ok(StrV(Quote(Val(r[2]))))

CharField_sanitize_data(f, value) ==
    LET r == Field_sanitize_data(f, value)
    IN  IF IsRaise(r) THEN r
        ELSE IF Len(Val(r[2])) > Val(Attr(f, "max_length")) THEN TooLong
        ELSE Ok(StrV(Quote(Val(r[2]))))

\* the text whose length JsonField.sanitize_data measures, for a validated value
JsonText(value) ==
    IF value = StrV(<<"N", "U", "L", "L">>) THEN Ok(value)
    ELSE LET v == IF TypeOf(value) = "str" THEN json_loads(Val(value)) ELSE Ok(value)
         IN  IF IsRaise(v)
             THEN Raise("FieldError", "The data entered can not be converted to json", "", "")
             ELSE IF ~Serializable(v[2])
             THEN Raise("TypeError", "is not JSON serializable", "", "")
             ELSE Ok(StrV(json_dumps(v[2])))

JsonField_sanitize_data(f, value) ==
    LET r == validate(f, value)
        t == JsonText(value)
    IN  IF IsRaise(r) THEN r
        ELSE IF IsRaise(t) THEN t
        ELSE IF Len(Val(t[2])) > Val(Attr(f, "max_length")) THEN TooLong
        ELSE Ok(StrV(Quote(Val(t[2]))))

\* IntegerField, DecimalField ('{}'.format) and ForeignKey (str)
NumberField_sanitize_data(f, value) ==
    LET r == Field_sanitize_data(f, value)
    IN  IF IsRaise(r) THEN r ELSE Ok(StrV(PyStr(r[2])))

DateField_sanitize_data(f, value) ==
    LET r == Field_sanitize_data(f, value)
    IN  IF IsRaise(r) THEN r ELSE Ok(StrV(Quote(PyStr(r[2]))))

\* self.sanitize_data(value), as the class of self resolves it
sanitize_data(f, value) ==
    CASE f.cls = "BooleanField" -> BooleanField_sanitize_data(f, value)
      [] f.cls \in {"CharField", "EmailField"} -> CharField_sanitize_data(f, value)
      [] f.cls = "JsonField" -> JsonField_sanitize_data(f, value)
      [] f.cls \in {"IntegerField", "DecimalField", "ForeignKey"} ->
            NumberField_sanitize_data(f, value)
      [] f.cls = "DateField" -> DateField_sanitize_data(f, value)
      [] OTHER -> Field_sanitize_data(f, value)

\* datetime(2020, 1, d).strftime(fmt), for the directives %Y, %m, %d and %%
RECURSIVE Strftime(_, _)
Strftime(fmt, d) ==
    IF fmt = <<>> THEN <<>>
    ELSE IF fmt[1] = "%" /\ Len(fmt) >= 2
    THEN (CASE fmt[2] = "Y" -> <<"2", "0", "2", "0">>
            [] fmt[2] = "m" -> <<"0", "1">>
            [] fmt[2] = "d" -> <<"0">> \o <<DigitChars[d + 1]>>
            [] OTHER -> <<fmt[2]>>) \o Strftime(SubSeq(fmt, 3, Len(fmt)), d)
    ELSE <<fmt[1]>> \o Strftime(Tail(fmt), d)

serialize_data(f, value) ==
    IF f.cls = "DateField"
    THEN IF TypeOf(value) = "datetime"
         THEN Ok(StrV(Strftime(Val(Attr(f, "strftime")), Val(value))))
         ELSE Raise("AttributeError", "object has no attribute", "", "strftime")
    ELSE Ok(value)

recompose(f, value) ==
    IF f.cls = "JsonField"
    THEN IF TypeOf(value) = "str" THEN json_loads(Val(value))
         ELSE Raise("TypeError", "the JSON object must be str, bytes or bytearray", "", "")
    ELSE Ok(value)

(***************************************************************************)
(* creation_query.                                                         *)
(***************************************************************************)
IsCloseBrace(c) == c = "}"

\* the first error str.format meets from index i of template t on, for
\* replacement fields {name} looked up in d; Ok(None) when there is none
RECURSIVE FormatCheck(_, _, _)
FormatCheck(t, i, d) ==
    IF i > Len(t) THEN Ok(NoneV)
    ELSE IF t[i] = "{"
    THEN IF FirstFrom(t, i + 1, IsCloseBrace) > Len(t)
         THEN Raise("ValueError", "expected '}' before end of string", "", "")
         ELSE IF FirstFrom(t, i + 1, IsCloseBrace) = i + 1
         THEN Raise("IndexError", "Replacement index 0 out of range", "", "")
         ELSE IF Join(SubSeq(t, i + 1, FirstFrom(t, i + 1, IsCloseBrace) - 1))
                    \notin DOMAIN d
         THEN Raise("KeyError",
                    Join(SubSeq(t, i + 1, FirstFrom(t, i + 1, IsCloseBrace) - 1)),
                    "", "")
         ELSE FormatCheck(t, FirstFrom(t, i + 1, IsCloseBrace) + 1, d)
    ELSE IF t[i] = "}"
    THEN Raise("ValueError", "Single '}' encountered in format string", "", "")
    ELSE FormatCheck(t, i + 1, d)

\* the text str.format builds from index i of template t on
RECURSIVE FormatText(_, _, _)
FormatText(t, i, d) ==
    IF i > Len(t) THEN <<>>
    ELSE IF t[i] = "{"
    THEN PyStr(d[Join(SubSeq(t, i + 1, FirstFrom(t, i + 1, IsCloseBrace) - 1))])
            \o FormatText(t, FirstFrom(t, i + 1, IsCloseBrace) + 1, d)
    ELSE <<t[i]>> \o FormatText(t, i + 1, d)

\* t.format(**d)
Format(t, d) ==
    IF IsRaise(FormatCheck(t, 1, d)) THEN FormatCheck(t, 1, d)
    ELSE Ok(StrV(FormatText(t, 1, d)))

\* the value the DEFAULT clause is written from: self.default, called if callable
DefaultValue(f) ==
    IF TypeOf(Attr(f, "default")) = "callable" THEN Val(Attr(f, "default"))
    ELSE Attr(f, "default")

HasDefault(f) == HasAttr(f, "default") /\ TypeOf(Attr(f, "default")) # "none"

\* '\'{}\''.format(r), for the outcome r of self.sanitize_data(default_value)
QuotedOutcome(r) == IF IsRaise(r) THEN r ELSE Ok(StrV(Quote(PyStr(r[2]))))

\* the text appended after ' DEFAULT ' for the default value dv
DefaultLiteral(f, dv) ==
    IF TypeOf(dv) = "str" THEN Ok(StrV(Quote(Val(dv))))
    ELSE IF TypeOf(dv) = "bool" THEN Ok(StrV(PyStr(dv)))
    ELSE QuotedOutcome(sanitize_data(f, dv))

\* ' DEFAULT ' followed by the literal, for the outcome lit of writing the literal
DefaultText(lit) ==
    IF IsRaise(lit) THEN lit ELSE Ok(StrV(<<" ", "D", "E", "F", "A", "U", "L", "T", " ">> \o Val(lit[2])))

\* the DEFAULT part with auto_now tested before the default
DefaultClause_AutoNowFirst(f) ==
    IF Attr(f, "field_type") \in {StrV(n) : n \in DATE_FIELDS}
            /\ Truthy(Attr(f, "auto_now"))
    THEN Ok(StrV(<<" ", "D", "E", "F", "A", "U", "L", "T", " ", "n", "o", "w", "(", ")">>))
    ELSE IF HasDefault(f)
    THEN DefaultText(DefaultLiteral(f, DefaultValue(f)))
    ELSE Ok(StrV(<<>>))

\* the DEFAULT part of the fragment
DefaultClause(f) ==
    IF HasDefault(f)
    THEN DefaultText(DefaultLiteral(f, DefaultValue(f)))
    ELSE IF Attr(f, "field_type") \in {StrV(n) : n \in DATE_FIELDS}
            /\ Truthy(Attr(f, "auto_now"))
    THEN Ok(StrV(<<" ", "D", "E", "F", "A", "U", "L", "T", " ", "n", "o", "w", "(", ")">>))
    ELSE Ok(StrV(<<>>))

\* the fragment around the DEFAULT part dflt, formatted with the instance __dict__
FormatFragment(f, dflt) ==
    IF IsRaise(dflt) THEN dflt
    ELSE Format(<<"{", "d", "b", "_", "c", "o", "l", "u", "m", "n", "}", " ">> \o creation_string(f.cls)
                    \o (IF Truthy(Attr(f, "null")) THEN <<" ", "N", "U", "L", "L">> ELSE <<" ", "N", "O", "T", " ", "N", "U", "L", "L">>)
                    \o Val(dflt[2])
                    \o (IF Truthy(Attr(f, "unique")) THEN <<" ", "U", "N", "I", "Q", "U", "E">> ELSE <<>>),
                f.dict)

Field_creation_query(f) == FormatFragment(f, DefaultClause(f))

ManyToMany_creation_query(f) == Format(creation_string(f.cls), f.dict)

creation_query(f) ==
    IF f.cls = "ManyToMany" THEN ManyToMany_creation_query(f)
    ELSE Field_creation_query(f)

(***************************************************************************)
(* The inputs: keyword arguments of declarations and arguments of calls.   *)
(***************************************************************************)
RECURSIVE Repeat(_, _)
Repeat(c, n) == IF n = 0 THEN <<>> ELSE <<c>> \o Repeat(c, n - 1)

DbColumns == {StrV(<<"n", "a", "m", "e">>), StrV(<<"_", "n">>), StrV(<<"n", "_">>), StrV(<<"a", "_", "_", "b">>)}

Defaults ==
    {NoneV, BoolV(TRUE), StrV(<<"a">>), IntV(1), DatetimeV(1), CallableV(BoolV(FALSE))}

BooleanDefaults == Defaults \cup {BoolV(FALSE), CallableV(BoolV(TRUE))}

DateDefaults == Defaults \cup {CallableV(DatetimeV(2)), StrV(<<"n", "o", "w", "(", ")">>)}

Nulls == {BoolV(TRUE), BoolV(FALSE), IntV(1)}

Uniques == {BoolV(TRUE), BoolV(FALSE)}

AutoNows == {BoolV(TRUE), BoolV(FALSE)}

MaxLengths == {NoneV} \cup {IntV(n) : n \in {-1, 0, 1, MaxLength - 1, MaxLength}}

ForeignKeys == {NoneV, StrV(<<>>), StrV(<<"u", "s", "e", "r", "s">>)}

ChoicesValues ==
    {NoneV,
     TupleV(<< <<StrV(<<"a">>), StrV(<<"A">>)>>, <<StrV(<<"1">>), StrV(<<"o", "n", "e">>)>>,
               <<IntV(1), StrV(<<"u", "n", "o">>)>>, <<DatetimeV(1), StrV(<<"d", "a", "y">>)>> >>)}

\* the keyword arguments a declaration of class cls may be given
KwargsOf(cls) ==
    CASE cls = "PkField" ->
            {[db_column |-> c, unique |-> u, null |-> n] :
                c \in DbColumns, u \in Uniques, n \in Nulls}
      [] cls = "BooleanField" ->
            {[db_column |-> c, default |-> d, max_length |-> IntV(0), null |-> n,
              unique |-> u] :
                c \in DbColumns, d \in BooleanDefaults, n \in Nulls, u \in Uniques}
      [] cls \in {"CharField", "EmailField", "JsonField"} ->
            {[db_column |-> c, default |-> d, max_length |-> m, null |-> n,
              choices |-> ch, unique |-> u] :
                c \in DbColumns, d \in Defaults, m \in MaxLengths, n \in Nulls,
                ch \in ChoicesValues, u \in Uniques}
      [] cls = "IntegerField" ->
            {[db_column |-> c, default |-> d, null |-> n, choices |-> ch,
              unique |-> u] :
                c \in DbColumns, d \in Defaults, n \in Nulls,
                ch \in ChoicesValues, u \in Uniques}
      [] cls = "DecimalField" ->
            {[db_column |-> c, default |-> d, null |-> n, choices |-> ch,
              unique |-> u, max_digits |-> IntV(10), decimal_places |-> IntV(2)] :
                c \in DbColumns, d \in Defaults, n \in Nulls,
                ch \in ChoicesValues, u \in Uniques}
      [] cls = "DateField" ->
            {[db_column |-> c, default |-> d, auto_now |-> a, null |-> n,
              choices |-> ch, unique |-> u, strftime |-> StrV(<<"d", "a", "t", "e", " ", "%", "Y", "-", "%", "m", "-", "%", "d">>)] :
                c \in DbColumns, d \in DateDefaults, a \in AutoNows, n \in Nulls,
                ch \in ChoicesValues, u \in Uniques}
      [] cls = "ForeignKey" ->
            {[db_column |-> c, default |-> d, foreign_key |-> fk, null |-> n,
              unique |-> u] :
                c \in DbColumns, d \in Defaults, fk \in ForeignKeys, n \in Nulls,
                u \in Uniques}
      [] cls = "ManyToMany" ->
            {[db_column |-> c, foreign_key |-> fk, default |-> d, unique |-> u] :
                c \in DbColumns, fk \in ForeignKeys, d \in Defaults, u \in Uniques}

\* the strings handed to the calls: every length up to MaxLength + 1, and samples
StringArgs ==
    {StrV(Repeat("a", n)) : n \in 0..(MaxLength + 1)}
        \cup {StrV(<<"h", "e", "l", "l", "o">>), StrV(<<"h", "e", "l", "l", "o", "o">>), StrV(<<"N", "U", "L", "L">>), StrV(<<"1">>), StrV(<<"1", " ">>),
              StrV(<<"[", "1", ",", "1", "]">>), StrV(<<"[", "1">>), StrV(<<"a", "a", "@", "a", ".", "a">>), StrV(<<"a", "a", "@", "a", ".", "a", "a">>)}

ListArgs ==
    {ListV(<<>>), ListV(<<IntV(1)>>), ListV(<<IntV(1), IntV(2), IntV(3)>>),
     ListV(<<StrV(<<"a">>)>>), ListV(<<ListV(<<StrV(<<"a">>)>>)>>),
     ListV(<<IntV(1), NoneV>>), ListV(<<ListV(<<IntV(1)>>), BoolV(TRUE)>>)}

Args ==
    StringArgs \cup ListArgs
        \cup {NoneV, BoolV(TRUE), BoolV(FALSE), IntV(1), IntV(12), DatetimeV(1)}

(***************************************************************************)
(* The state machine: a descriptor is declared once; calls follow.         *)
(***************************************************************************)
NoDict == [k \in {} |-> NoneV]
NoField == [cls |-> "", dict |-> NoDict]
NoDeclaration == [cls |-> "", kw |-> NoDict]
Idle == [op |-> "idle", arg |-> NoneV]

Init ==
    /\ field = NoField
    /\ declared = NoDeclaration
    /\ call = Idle
    /\ result = Ok(NoneV)

\* f = Class(**kw)
Construct(cls, kw) ==
    /\ declared = NoDeclaration
    /\ declared' = [cls |-> cls, kw |-> kw]
    /\ call' = [op |-> "init", arg |-> NoneV]
    /\ result' = Field_init(cls, kw)
    /\ field' = IF IsOk(Field_init(cls, kw))
                THEN [cls |-> cls, dict |-> Field_dict(cls, kw)]
                ELSE NoField

Ready == field # NoField /\ call = Idle

Validate(value) ==
    /\ Ready
    /\ call' = [op |-> "validate", arg |-> value]
    /\ result' = validate(field, value)
    /\ UNCHANGED <<field, declared>>

Sanitize(value) ==
    /\ Ready
    /\ call' = [op |-> "sanitize_data", arg |-> value]
    /\ result' = sanitize_data(field, value)
    /\ UNCHANGED <<field, declared>>

Serialize(value) ==
    /\ Ready
    /\ call' = [op |-> "serialize_data", arg |-> value]
    /\ result' = serialize_data(field, value)
    /\ UNCHANGED <<field, declared>>

Recompose(value) ==
    /\ Ready
    /\ call' = [op |-> "recompose", arg |-> value]
    /\ result' = recompose(field, value)
    /\ UNCHANGED <<field, declared>>

\* creation_query that stores the value a producer returned as the default
CreationQuery_Caching ==
    /\ Ready
    /\ call' = [op |-> "creation_query", arg |-> NoneV]
    /\ result' = creation_query(field)
    /\ field' = IF HasDefault(field)
                THEN [field EXCEPT !.dict["default"] = DefaultValue(field)]
                ELSE field
    /\ UNCHANGED declared

CreationQuery ==
    /\ Ready
    /\ call' = [op |-> "creation_query", arg |-> NoneV]
    /\ result' = creation_query(field)
    /\ UNCHANGED <<field, declared>>

\* the caller takes the outcome; the descriptor is ready for the next call
Return ==
    /\ field # NoField
    /\ call # Idle
    /\ call' = Idle
    /\ result' = Ok(NoneV)
    /\ UNCHANGED <<field, declared>>

Next ==
    \/ \E cls \in Classes : \E kw \in KwargsOf(cls) : Construct(cls, kw)
    \/ \E value \in Args : Validate(value)
    \/ \E value \in Args : Sanitize(value)
    \/ \E value \in Args : Serialize(value)
    \/ \E value \in Args : Recompose(value)
    \/ CreationQuery
    \/ Return

Spec == Init /\ [][Next]_vars

(***************************************************************************)
(* Properties.                                                             *)
(***************************************************************************)
Called(op) == field # NoField /\ call.op = op

\* the descriptor was declared with null=True
Nullable(f) == HasAttr(f, "null") /\ Truthy(Attr(f, "null"))
\* the descriptor was declared with null=False
NotNullable(f) == HasAttr(f, "null") /\ ~Truthy(Attr(f, "null"))

CharKinds == {"CharField", "EmailField"}
LengthKinds == CharKinds \cup {"JsonField"}
MaxLengthOf(f) == Val(Attr(f, "max_length"))

\* the length-bounded kinds are declared with the positive max_length the
\* data model asks for
WellFormed(f) == f.cls \in LengthKinds => MaxLengthOf(f) > 0

\* the text of a returned literal
Text(r) == Val(r[2])
ReturnsText(r) == IsOk(r) /\ TypeOf(r[2]) = "str"

\* C1: validate(None) returns on a descriptor declared with null=True and
\* fails with a FieldError on one declared with null=False.
C1_ValidateNoneIffNullable ==
    (Called("validate") /\ TypeOf(call.arg) = "none" /\ HasAttr(field, "null")) =>
        IF Nullable(field) THEN IsOk(result) ELSE Raises(result, "FieldError")

\* C2: on a descriptor declared with null=False, sanitize_data(None) fails
\* with the nullability FieldError and returns no literal.
C2_SanitizeNoneNotNullableFails ==
    (Called("sanitize_data") /\ TypeOf(call.arg) = "none" /\ NotNullable(field)
        /\ WellFormed(field)) =>
        result = Raise("FieldError", "null value in NOT NULL field", "", "")

\* a value every check of sanitize_data other than the length bound accepts
OtherwiseValid(f, value) ==
    /\ IsOk(validate(f, value))
    /\ f.cls = "JsonField" => IsOk(JsonText(value))

\* C3 as stated: on a character or JSON descriptor with max_length = L,
\* sanitize_data succeeds for every otherwise valid value of length <= L and
\* fails with a FieldError for a value of length L + 1; the character kind
\* returns the value in single quotes.
C3_LengthOfValueBounds ==
    (Called("sanitize_data") /\ field.cls \in LengthKinds /\ WellFormed(field)
        /\ TypeOf(call.arg) \in {"str", "list"}
        /\ OtherwiseValid(field, call.arg)) =>
        /\ Len(Val(call.arg)) <= MaxLengthOf(field) => IsOk(result)
        /\ Len(Val(call.arg)) = MaxLengthOf(field) + 1 => Raises(result, "FieldError")
        /\ (field.cls \in CharKinds /\ IsOk(result))
              => result = Ok(StrV(Quote(Val(call.arg))))

\* the text json.dumps re-encodes a value to; the string 'NULL' is kept as it is
Canonical(value) ==
    IF value = StrV(<<"N", "U", "L", "L">>) THEN Val(value)
    ELSE IF TypeOf(value) = "str" THEN json_dumps(json_loads(Val(value))[2])
    ELSE json_dumps(value)

\* the value is the string 'NULL', a text json.loads parses, or a structure
\* json.dumps encodes
Encodable(value) ==
    \/ value = StrV(<<"N", "U", "L", "L">>)
    \/ TypeOf(value) = "str" /\ IsOk(json_loads(Val(value)))
    \/ TypeOf(value) # "str" /\ Serializable(value)

\* C3 amended: on a character descriptor the bound is on the length of the
\* value: an otherwise valid value of length <= L comes back in single quotes
\* and a value of length L + 1 fails with a FieldError.  On a JSON descriptor
\* the bound is on the length of the canonical text the value is re-encoded
\* to: an otherwise valid value succeeds exactly when that text has length
\* <= L, and the result is that text in single quotes.
C3_LengthBound ==
    /\ (Called("sanitize_data") /\ field.cls \in CharKinds /\ TypeOf(call.arg) = "str") =>
          /\ (IsOk(validate(field, call.arg)) /\ Len(Val(call.arg)) <= MaxLengthOf(field))
                => result = Ok(StrV(Quote(Val(call.arg))))
          /\ Len(Val(call.arg)) = MaxLengthOf(field) + 1 => Raises(result, "FieldError")
          /\ IsOk(result) => result = Ok(StrV(Quote(Val(call.arg))))
    /\ (Called("sanitize_data") /\ field.cls = "JsonField"
          /\ IsOk(validate(field, call.arg)) /\ Encodable(call.arg)) =>
          /\ IsOk(result) <=> Len(Canonical(call.arg)) <= MaxLengthOf(field)
          /\ IsOk(result) => result = Ok(StrV(Quote(Canonical(call.arg))))
          /\ ~IsOk(result) => Raises(result, "FieldError")

\* a JSON descriptor accepted a text one character longer than max_length
C3_Witness ==
    /\ Called("sanitize_data")
    /\ field.cls = "JsonField"
    /\ TypeOf(call.arg) = "str"
    /\ call.arg # StrV(<<"N", "U", "L", "L">>)
    /\ Len(Val(call.arg)) = MaxLengthOf(field) + 1
    /\ IsOk(result)

\* the value the DEFAULT clause of a boolean descriptor is written from
BooleanDefault(f) ==
    /\ f.cls = "BooleanField"
    /\ HasDefault(f)
    /\ TypeOf(DefaultValue(f)) = "bool"

\* C4: a boolean descriptor whose default is, or produces, True or False
\* writes it as DEFAULT true or DEFAULT false, which ends the fragment when
\* unique is unset.
C4_BooleanDefaultLowerCase ==
    (Called("creation_query") /\ BooleanDefault(field)) =>
        LET token == IF Val(DefaultValue(field)) THEN <<"t", "r", "u", "e">> ELSE <<"f", "a", "l", "s", "e">>
        IN  /\ ReturnsText(result)
            /\ Contains(Text(result), <<" ", "D", "E", "F", "A", "U", "L", "T", " ">> \o token)
            /\ ~Truthy(Attr(field, "unique"))
                  => EndsWith(Text(result), <<" ", "D", "E", "F", "A", "U", "L", "T", " ">> \o token)

\* C5: on a descriptor declared with null=True, sanitize_data(None) returns
\* the bare literal NULL.
C5_SanitizeNoneNullableIsNULL ==
    (Called("sanitize_data") /\ TypeOf(call.arg) = "none" /\ Nullable(field)
        /\ WellFormed(field)) =>
        result = Ok(StrV(<<"N", "U", "L", "L">>))

\* C6 as stated: on a ManyToMany descriptor, validate of a list succeeds
\* exactly when validate of each of its elements succeeds.
C6_ListIffEachElement ==
    (Called("validate") /\ field.cls = "ManyToMany" /\ TypeOf(call.arg) = "list") =>
        (IsOk(result) <=>
            \A i \in 1..Len(Val(call.arg)) : IsOk(validate(field, Val(call.arg)[i])))

\* C6 amended: on a ManyToMany descriptor, validate of a list succeeds
\* exactly when, for each of its elements, the element is itself a list or
\* validate of the element succeeds.
C6_ListIffEachElementOrList ==
    (Called("validate") /\ field.cls = "ManyToMany" /\ TypeOf(call.arg) = "list") =>
        (IsOk(result) <=>
            \A i \in 1..Len(Val(call.arg)) :
                \/ TypeOf(Val(call.arg)[i]) = "list"
                \/ IsOk(validate(field, Val(call.arg)[i])))

\* a list was accepted although validate rejects one of its elements, a list
C6_Witness ==
    /\ Called("validate")
    /\ field.cls = "ManyToMany"
    /\ TypeOf(call.arg) = "list"
    /\ IsOk(result)
    /\ \E i \in 1..Len(Val(call.arg)) :
          /\ TypeOf(Val(call.arg)[i]) = "list"
          /\ IsRaise(validate(field, Val(call.arg)[i]))

\* the descriptor with auto_now negated
FlipAutoNow(f) ==
    [f EXCEPT !.dict["auto_now"] = BoolV(~Truthy(Attr(f, "auto_now")))]

C8_RequiredKeyword ==
    \A i \in 1..Len(required_kwargs(declared.cls)) :
        (call.op = "init"
            /\ ~Truthy(Get(declared.kw, required_kwargs(declared.cls)[i]))) =>
            /\ result = Raise("FieldError", "field requires", declared.cls,
                              required_kwargs(declared.cls)[i])
            /\ field = NoField

\* a declaration with a falsy, but present, required keyword was refused
C8_Witness ==
    /\ call.op = "init"
    /\ declared.cls = "JsonField"
    /\ declared.kw["max_length"] = IntV(0)
    /\ result = Raise("FieldError", "field requires", "JsonField", "max_length")
    /\ field = NoField

\* C9: every constructed character or JSON descriptor has max_length > 0.
C9_MaxLengthPositive ==
    (field # NoField /\ field.cls \in LengthKinds) => MaxLengthOf(field) > 0

\* the outcome of the call op(arg) on descriptor f
Outcome(f, op, arg) ==
    CASE op = "validate" -> validate(f, arg)
      [] op = "sanitize_data" -> sanitize_data(f, arg)
      [] op = "serialize_data" -> serialize_data(f, arg)
      [] op = "recompose" -> recompose(f, arg)
      [] op = "creation_query" -> creation_query(f)

Calls == {"validate", "sanitize_data", "serialize_data", "recompose", "creation_query"}

\* the descriptor as its declaration built it
Declared == [cls |-> declared.cls, dict |-> Field_dict(declared.cls, declared.kw)]

\* the outcome of the call in progress is the one the declared configuration gives
OutcomeOfDeclaration ==
    (field # NoField /\ call.op \in Calls
        /\ TypeOf(Get(declared.kw, "default")) # "callable") =>
        result = Outcome(Declared, call.op, call.arg)

\* C10: once constructed, the descriptor is changed by no call, succeeding
\* or failing, and for a descriptor without a producer default the outcome
\* of every call is the one its argument and the declared configuration give.
C10_CallsLeaveDescriptor ==
    /\ [][field # NoField => field' = field]_vars
    /\ []OutcomeOfDeclaration

\* a call has failed on a descriptor that still is as it was declared
C10_Witness ==
    /\ field # NoField
    /\ call.op \in Calls
    /\ IsRaise(result)
    /\ field = Declared
====
